---- MODULE Spec2Model ----
(***************************************************************************)
(* Barnes-Hut quadtree of the solar-system simulation: the quadtree        *)
(* (create_quadtree, subdivide, get_quadrant, insert_body), the mass       *)
(* aggregation (calculate_center_of_mass), the force traversal             *)
(* (calculate_force_from_quadtree / bh_calculate_force) and the steppers   *)
(* that drive them once per tick.                                          *)
(*                                                                         *)
(* Numbers.  The C code computes in double.  Here a double is a fixed-point*)
(* number: the integer n stands for the value n / Scale, every operation   *)
(* rounds toward zero to that resolution, and a quantity smaller than the  *)
(* resolution is absorbed (x + w = x once w has been halved below one      *)
(* unit), which is what a double does at its own resolution.  Bodies and   *)
(* the fixed root start on whole units, where halving is exact; a region   *)
(* whose width is an odd number of resolution steps is at the limit of the *)
(* resolution and its children no longer cover it exactly.                 *)
(***************************************************************************)
EXTENDS Integers, Sequences, FiniteSets, TLC

\* ------------------------------------------------------------------ bounds

\* Largest number of bodies handed to the quadtree.
MaxBodies == 3

\* Body masses are 1 .. MaxMass (in whole units).
MaxMass == 2

\* Ticks a stepper is followed for.
MaxTicks == 2

\* Frames simulated when the trajectory buffers are followed.
MaxFrames == 5

\* Largest trajectory_interval.
MaxInterval == 2

\* The side, in resolution steps, of the corner of the root in which close
\* bodies are placed.
MaxFine == 4

\* The clicks the event loop handles before a frame.
MaxClicks == 2

\* #define MAX_TRAJECTORY_POINTS: the capacity of a trajectory buffer (1000
\* in the programs, smaller here so that a buffer fills up).
MAX_TRAJECTORY_POINTS == 2

\* A stepper is followed while every coordinate is within MaxCoord (in whole
\* units) of the origin.
MaxCoord == 100

\* ------------------------------------------------------- program constants

\* Fixed-point resolution: Scale units of the model are 1.0 of the program.
Scale == 5 * 8

\* #define SIMULATION_REGION: half the side of the fixed root region (in
\* whole units; the programs use 50.0 and 100.0, the model a smaller region).
SIMULATION_REGION == 2

\* #define EPSILON 1e-9: the smallest distance the force code divides by.
\* In the model it is the smallest positive number.
EPSILON == 1

\* #define G 1.0
G == Scale

\* #define THETA 0.5 (solar.c, asteriod.c) and 0.7 (barnes_hut.h)
THETA == Scale \div 2
BH_THETA == (7 * Scale) \div 10

\* The NULL pointer, for a node's body.
NULL == 0

\* ------------------------------------------------------ double arithmetic

Abs(a) == IF a < 0 THEN -a ELSE a

Max(a, b) == IF a > b THEN a ELSE b

\* Integer quotient rounded toward zero.
TruncDiv(a, b) ==
    IF (a >= 0) = (b > 0) THEN Abs(a) \div Abs(b) ELSE -(Abs(a) \div Abs(b))

\* a * b
FMul(a, b) == TruncDiv(a * b, Scale)

\* a / b, b # 0
FDiv(a, b) == TruncDiv(a * Scale, b)

\* a / 2.0
Half(a) == TruncDiv(a, 2)

RECURSIVE SqrtSearch(_, _, _)
SqrtSearch(n, lo, hi) ==
    IF lo >= hi THEN lo
    ELSE LET mid == (lo + hi + 1) \div 2
         IN  IF mid * mid <= n THEN SqrtSearch(n, mid, hi)
             ELSE SqrtSearch(n, lo, mid - 1)

RECURSIVE SqrtUpper(_, _)
SqrtUpper(n, h) == IF h * h > n THEN h ELSE SqrtUpper(n, 2 * h)

\* sqrt(a), a >= 0
FSqrt(a) == SqrtSearch(a * Scale, 0, SqrtUpper(a * Scale, 1))

\* -------------------------------------------------------------- quadtree

\* A tree is a function from paths to nodes.  The root is the empty path and
\* the children nw, ne, sw, se of the node at p are at p \o <<1>> .. <<4>>;
\* a child pointer is NULL exactly when its path is not in the tree.
RootPath == << >>
NW == 1
NE == 2
SW == 3
SE == 4

NoTree == << >>

Child(p, q) == Append(p, q)

HasNode(t, p) == p \in DOMAIN t

create_quadtree(x, y, width, height) ==
    [x |-> x, y |-> y, width |-> width, height |-> height, body |-> NULL,
     total_mass |-> 0, center_x |-> 0, center_y |-> 0]

is_in_bounds(node, body) ==
    /\ body.x >= node.x
    /\ body.x < node.x + node.width
    /\ body.y >= node.y
    /\ body.y < node.y + node.height

\* The four children of the node at p, created by subdivide.
subdivide(t, p) ==
    LET node == t[p]
        half_width == Half(node.width)
        half_height == Half(node.height)
    IN  (Child(p, NW) :> create_quadtree(node.x, node.y, half_width, half_height))
        @@ (Child(p, NE) :> create_quadtree(node.x + half_width, node.y,
                                            half_width, half_height))
        @@ (Child(p, SW) :> create_quadtree(node.x, node.y + half_height,
                                            half_width, half_height))
        @@ (Child(p, SE) :> create_quadtree(node.x + half_width,
                                            node.y + half_height,
                                            half_width, half_height))
        @@ t

get_quadrant(node, body) ==
    LET mid_x == node.x + Half(node.width)
        mid_y == node.y + Half(node.height)
    IN  IF body.y < mid_y
        THEN (IF body.x < mid_x THEN NW ELSE NE)
        ELSE (IF body.x < mid_x THEN SW ELSE SE)

\* insert_body(node, body) for the node at path p and the body bs[b].
\* insert_body as it would be if the body held by the leaf were dropped at
\* the subdivision instead of being inserted again.
RECURSIVE insert_body_dropping(_, _, _, _)
insert_body_dropping(t, bs, p, b) ==
    LET node == t[p]
        leaf == ~HasNode(t, Child(p, NW))
    IN  IF ~is_in_bounds(node, bs[b]) THEN t
        ELSE IF node.body = NULL /\ leaf THEN [t EXCEPT ![p].body = b]
        ELSE LET t1 == IF node.body # NULL /\ leaf
                       THEN [subdivide(t, p) EXCEPT ![p].body = NULL]
                       ELSE t
             IN  insert_body_dropping(t1, bs, Child(p, get_quadrant(node, bs[b])), b)

\* insert_body as it would be without "node->body = NULL" after subdivide:
\* the subdivided node keeps its body.
RECURSIVE insert_body_keeping(_, _, _, _)
insert_body_keeping(t, bs, p, b) ==
    LET node == t[p]
        leaf == ~HasNode(t, Child(p, NW))
    IN  IF ~is_in_bounds(node, bs[b]) THEN t
        ELSE IF node.body = NULL /\ leaf THEN [t EXCEPT ![p].body = b]
        ELSE LET t1 == IF node.body # NULL /\ leaf
                       THEN insert_body_keeping(subdivide(t, p), bs,
                                Child(p, get_quadrant(node, bs[node.body])),
                                node.body)
                       ELSE t
             IN  insert_body_keeping(t1, bs, Child(p, get_quadrant(node, bs[b])), b)

\* insert_body as it would be if an empty leaf below the root were
\* subdivided once more before the body is stored.
RECURSIVE insert_body_splitting(_, _, _, _)
insert_body_splitting(t, bs, p, b) ==
    LET node == t[p]
        leaf == ~HasNode(t, Child(p, NW))
    IN  IF ~is_in_bounds(node, bs[b]) THEN t
        ELSE IF node.body = NULL /\ leaf
             THEN IF p = RootPath THEN [t EXCEPT ![p].body = b]
                  ELSE [subdivide(t, p)
                           EXCEPT ![Child(p, get_quadrant(node, bs[b]))].body = b]
        ELSE LET t1 == IF node.body # NULL /\ leaf
                       THEN LET existing_body == node.body
                                t0 == [subdivide(t, p) EXCEPT ![p].body = NULL]
                            IN  insert_body_splitting(t0, bs,
                                    Child(p, get_quadrant(node, bs[existing_body])),
                                    existing_body)
                       ELSE t
             IN  insert_body_splitting(t1, bs, Child(p, get_quadrant(node, bs[b])), b)

\* insert_body as it would be if the bounds of the node it is called with
\* at the root were not tested.
RECURSIVE insert_body_unchecked(_, _, _, _)
insert_body_unchecked(t, bs, p, b) ==
    LET node == t[p]
        leaf == ~HasNode(t, Child(p, NW))
    IN  IF p # RootPath /\ ~is_in_bounds(node, bs[b]) THEN t
        ELSE IF node.body = NULL /\ leaf THEN [t EXCEPT ![p].body = b]
        ELSE LET t1 == IF node.body # NULL /\ leaf
                       THEN LET existing_body == node.body
                                t0 == [subdivide(t, p) EXCEPT ![p].body = NULL]
                            IN  insert_body_unchecked(t0, bs,
                                    Child(p, get_quadrant(node, bs[existing_body])),
                                    existing_body)
                       ELSE t
             IN  insert_body_unchecked(t1, bs, Child(p, get_quadrant(node, bs[b])), b)

RECURSIVE insert_body(_, _, _, _)
insert_body(t, bs, p, b) ==
    LET node == t[p]
        leaf == ~HasNode(t, Child(p, NW))
    IN  IF ~is_in_bounds(node, bs[b]) THEN t
        ELSE IF node.body = NULL /\ leaf THEN [t EXCEPT ![p].body = b]
        ELSE LET t1 == IF node.body # NULL /\ leaf
                       THEN LET existing_body == node.body
                                t0 == [subdivide(t, p) EXCEPT ![p].body = NULL]
                            IN  insert_body(t0, bs,
                                    Child(p, get_quadrant(node, bs[existing_body])),
                                    existing_body)
                       ELSE t
             IN  insert_body(t1, bs, Child(p, get_quadrant(node, bs[b])), b)

\* One child's contribution to the sums of calculate_center_of_mass.
AddChild(acc, child) ==
    IF child.total_mass > 0
    THEN [total_mass |-> acc.total_mass + child.total_mass,
          center_x |-> acc.center_x + FMul(child.center_x, child.total_mass),
          center_y |-> acc.center_y + FMul(child.center_y, child.total_mass)]
    ELSE acc

\* free_quadtree as it would be if it freed the node it is given and left
\* the children alone.
free_quadtree_leaking(t, p) ==
    IF ~HasNode(t, p) THEN << >> ELSE <<p>>

\* free_quadtree: the nodes handed to free(), in the order of the calls: the
\* four subtrees, then the node itself.  No field of a body is touched.
RECURSIVE free_quadtree(_, _)
free_quadtree(t, p) ==
    IF ~HasNode(t, p) THEN << >>
    ELSE free_quadtree(t, Child(p, NW)) \o free_quadtree(t, Child(p, NE))
         \o free_quadtree(t, Child(p, SW)) \o free_quadtree(t, Child(p, SE))
         \o <<p>>

\* The center a massless node would report without the halves: its corner.
CornerCenter(node) == [x |-> node.x, y |-> node.y]

\* The geometric center of the node, reported when it has no mass.
GeometricCenter(node) ==
    [x |-> node.x + Half(node.width), y |-> node.y + Half(node.height)]

\* The sums of an internal node as they would start without the reset: from
\* what the node holds.
KeepSums(node) ==
    [total_mass |-> node.total_mass, center_x |-> node.center_x,
     center_y |-> node.center_y]

\* "Reset values": the sums of an internal node start from zero.
ResetSums(node) ==
    [total_mass |-> 0, center_x |-> 0, center_y |-> 0]

RECURSIVE calculate_center_of_mass(_, _, _)
calculate_center_of_mass(t, bs, p) ==
    IF ~HasNode(t, p) THEN t
    ELSE LET node == t[p]
             leaf == ~HasNode(t, Child(p, NW))
         IN  IF node.body # NULL /\ leaf
             THEN [t EXCEPT ![p].total_mass = bs[node.body].mass,
                            ![p].center_x = bs[node.body].x,
                            ![p].center_y = bs[node.body].y]
             ELSE IF node.body = NULL /\ leaf
             THEN [t EXCEPT ![p].total_mass = 0,
                            ![p].center_x = GeometricCenter(node).x,
                            ![p].center_y = GeometricCenter(node).y]
             ELSE LET t1 == calculate_center_of_mass(t, bs, Child(p, NW))
                      t2 == calculate_center_of_mass(t1, bs, Child(p, NE))
                      t3 == calculate_center_of_mass(t2, bs, Child(p, SW))
                      t4 == calculate_center_of_mass(t3, bs, Child(p, SE))
                      s1 == AddChild(ResetSums(t4[p]), t4[Child(p, NW)])
                      s2 == AddChild(s1, t4[Child(p, NE)])
                      s3 == AddChild(s2, t4[Child(p, SW)])
                      s4 == AddChild(s3, t4[Child(p, SE)])
                  IN  IF s4.total_mass > 0
                      THEN [t4 EXCEPT ![p].total_mass = s4.total_mass,
                                      ![p].center_x = FDiv(s4.center_x, s4.total_mass),
                                      ![p].center_y = FDiv(s4.center_y, s4.total_mass)]
                      ELSE [t4 EXCEPT ![p].total_mass = 0,
                                      ![p].center_x = GeometricCenter(node).x,
                                      ![p].center_y = GeometricCenter(node).y]

\* ------------------------------------------------------ force evaluation

\* The caller's accumulators *fx and *fy.  terms lists the additions made to
\* them, in order: the node whose mass was added, whether it was a leaf's
\* body (direct) or an internal node's aggregate, the mass used and the
\* distance divided by.
ZeroForce == [fx |-> 0, fy |-> 0, terms |-> << >>]

\* *fx += force_magnitude * dx / distance; *fy += force_magnitude * dy / distance
AddForce(acc, force_magnitude, dx, dy, distance, p, direct, mass) ==
    [fx |-> acc.fx + FDiv(FMul(force_magnitude, dx), distance),
     fy |-> acc.fy + FDiv(FMul(force_magnitude, dy), distance),
     terms |-> Append(acc.terms, [node |-> p, direct |-> direct, mass |-> mass,
                                  distance |-> distance])]

\* The leaf branch as it would be without the "distance < EPSILON" return:
\* the term is added whatever the distance (the quotient by a zero distance
\* is not a number, the accumulators are left as they were).
LeafForceUnguarded(node, other, body, p, acc) ==
    LET dx == other.x - body.x
        dy == other.y - body.y
        distance_squared == FMul(dx, dx) + FMul(dy, dy)
        distance == FSqrt(distance_squared)
    IN  IF distance < EPSILON
        THEN [acc EXCEPT !.terms = Append(@, [node |-> p, direct |-> TRUE,
                                              mass |-> other.mass,
                                              distance |-> distance])]
        ELSE AddForce(acc,
                      FDiv(FMul(FMul(G, body.mass), other.mass), distance_squared),
                      dx, dy, distance, p, TRUE, other.mass)

\* The leaf branch: the pairwise force of the leaf's body on the target.
LeafForce(node, other, body, p, acc) ==
    LET dx == other.x - body.x
        dy == other.y - body.y
        distance_squared == FMul(dx, dx) + FMul(dy, dy)
        distance == FSqrt(distance_squared)
    IN  IF distance < EPSILON THEN acc
        ELSE AddForce(acc,
                      FDiv(FMul(FMul(G, body.mass), other.mass), distance_squared),
                      dx, dy, distance, p, TRUE, other.mass)

\* The opening test as it would be if theta were ignored: every internal
\* node at a nonzero distance is approximated.
RatioIgnored(s, distance, theta) == distance # 0

\* s / distance < theta.  With distance = 0 the quotient is +infinity or NaN
\* and the comparison is false.
RatioBelow(s, distance, theta) ==
    distance # 0 /\ FDiv(s, distance) < theta

\* The approximated branch: the node as one point mass at its center of mass.
\* distance >= EPSILON here, and the square of such a double is not zero.
NodeForce(node, body, distance, dx, dy, p, acc) ==
    IF distance < EPSILON THEN acc
    ELSE AddForce(acc,
                  FDiv(FMul(FMul(G, body.mass), node.total_mass),
                       Max(FMul(distance, distance), 1)),
                  dx, dy, distance, p, FALSE, node.total_mass)

\* calculate_force_from_quadtree(body, node, theta, fx, fy) of quadTree2.c
\* and bh_calculate_force of barnes_hut.c, for the node at p and the target
\* bs[b].
RECURSIVE calculate_force_from_quadtree(_, _, _, _, _, _)
calculate_force_from_quadtree(t, bs, p, b, theta, acc) ==
    IF ~HasNode(t, p) \/ t[p].total_mass = 0 THEN acc
    ELSE LET node == t[p]
         IN  IF node.body # NULL /\ node.body # b
             THEN LeafForce(node, bs[node.body], bs[b], p, acc)
             ELSE IF HasNode(t, Child(p, NW))
             THEN LET dx == node.center_x - bs[b].x
                      dy == node.center_y - bs[b].y
                      distance == FSqrt(FMul(dx, dx) + FMul(dy, dy))
                      s == Max(node.width, node.height)
                  IN  IF RatioBelow(s, distance, theta)
                      THEN NodeForce(node, bs[b], distance, dx, dy, p, acc)
                      ELSE LET a1 == calculate_force_from_quadtree(
                                         t, bs, Child(p, NW), b, theta, acc)
                               a2 == calculate_force_from_quadtree(
                                         t, bs, Child(p, NE), b, theta, a1)
                               a3 == calculate_force_from_quadtree(
                                         t, bs, Child(p, SW), b, theta, a2)
                           IN  calculate_force_from_quadtree(
                                   t, bs, Child(p, SE), b, theta, a3)
             ELSE acc

\* ---------------------------------------------------------------- state

VARIABLES
    bodies,     \* the body array: index -> [x, y, vx, vy, mass]
    tree,       \* the quadtree of the current tick, NoTree when none
    pc,         \* where the caller is in its tick
    inserted,   \* the bodies insert_body was called with at the root
    force,      \* the accumulators after the last force evaluation
    prog,       \* the program that runs: "lib" is a caller of the library alone
    idx,        \* the loop index i of the caller: the body it handles
    dt,         \* the time step
    frame_count,
    evaluated,  \* the bodies whose force was evaluated in this tick
    written,    \* the bodies whose velocity and position were written in this tick
    used,       \* body -> the bodies whose mass entered the force it was updated with
    heap,       \* the allocations of the tick: the nodes made and freed, the
                \* per-tick copies of bodies, and a failed malloc
    trajectory, \* body -> its trajectory samples, oldest first
    trajectory_interval,
    frames,     \* the number of frames the driver loop runs
    controls    \* the main loop's dt and pixels_per_AU, the dt handed to the
                \* stepper in the last frame, the clicks handled since

stepvars == <<prog, idx, dt, frame_count, evaluated, written, used, heap,
              trajectory, trajectory_interval, frames, controls>>

vars == <<bodies, tree, pc, inserted, force, prog, idx, dt, frame_count,
          evaluated, written, used, heap, trajectory, trajectory_interval, frames,
          controls>>

\* Thresholds the force evaluation is called with: 0 (full recursion), the
\* two THETA of the programs, and two above them.
Thetas == {0, THETA, BH_THETA, (3 * Scale) \div 2, 10 * Scale}

Coords == {c * Scale : c \in (-SIMULATION_REGION) .. (SIMULATION_REGION - 1)}

\* create_body: a body at rest, of radius 1.0.
create_body(x, y, mass) ==
    [x |-> x, y |-> y, vx |-> 0, vy |-> 0, mass |-> mass, radius |-> Scale]

BodyIds == DOMAIN bodies

NoForce == [target |-> NULL, theta |-> 0, fx |-> 0, fy |-> 0, terms |-> << >>]

\* The root of solar.c and asteriod.c: the square of side 2 * SIMULATION_REGION
\* centred on the origin.
FixedRoot ==
    create_quadtree(-SIMULATION_REGION * Scale, -SIMULATION_REGION * Scale,
                    2 * SIMULATION_REGION * Scale, 2 * SIMULATION_REGION * Scale)

\* The masses of an array of n bodies: all of mass 1.0, or graded 1.0, 2.0, ..
\* up to MaxMass and around again.
MassProfiles == {"unit", "graded"}

MassOf(profile, i) ==
    IF profile = "unit" THEN Scale ELSE (1 + ((i - 1) % MaxMass)) * Scale

Positions == {<<x, y>> : x \in Coords, y \in Coords}

\* The caller's array is in no particular order; the model lists it by
\* position, and inserts it in every order.
PosBefore(a, b) == a[1] < b[1] \/ (a[1] = b[1] /\ a[2] <= b[2])

Listed(ps) == \A i \in DOMAIN ps : \A j \in DOMAIN ps : i < j => PosBefore(ps[i], ps[j])

\* The window and the limits of the main loop's controls.  Time steps are
\* counted in units of min_dt (0.0001): dt starts at 0.001, a click changes
\* it by dt_step = 0.001, and it is kept between min_dt and max_dt = 0.1.
\* pixels_per_AU is counted in pixels.
WIDTH == 2400
zoom_step == 20
min_zoom == 40
max_zoom == 400
dt_step == 10
min_dt == 1
max_dt == 1000

\* The controls when the main loop starts; no frame has been stepped and
\* no click handled.
InitialControls ==
    [dt |-> 10, pixels_per_AU |-> 120, handed |-> << >>, clicks |-> 0]

\* The handler as it would be without the lower limit of the time step.
on_click_unlimited(c, x, y) ==
    LET zoomed ==
            IF x >= WIDTH - 100 /\ x <= WIDTH - 50 /\ y >= 20 /\ y <= 60
            THEN [c EXCEPT !.pixels_per_AU =
                     IF @ + zoom_step > max_zoom THEN max_zoom ELSE @ + zoom_step]
            ELSE IF x >= WIDTH - 100 /\ x <= WIDTH - 50 /\ y >= 80 /\ y <= 120
            THEN [c EXCEPT !.pixels_per_AU =
                     IF @ - zoom_step < min_zoom THEN min_zoom ELSE @ - zoom_step]
            ELSE c
    IN  IF x >= WIDTH - 100 /\ x <= WIDTH - 50 /\ y >= 200 /\ y <= 240
        THEN [zoomed EXCEPT !.dt = IF @ + dt_step > max_dt THEN max_dt ELSE @ + dt_step]
        ELSE IF x >= WIDTH - 100 /\ x <= WIDTH - 50 /\ y >= 260 /\ y <= 300
        THEN [zoomed EXCEPT !.dt = @ - dt_step]
        ELSE zoomed

\* The SDL_MOUSEBUTTONDOWN branch of the event loop for a click at (x, y):
\* the zoom buttons, then the time step buttons, each change followed by
\* its limit.
on_click(c, x, y) ==
    LET zoomed ==
            IF x >= WIDTH - 100 /\ x <= WIDTH - 50 /\ y >= 20 /\ y <= 60
            THEN [c EXCEPT !.pixels_per_AU =
                     IF @ + zoom_step > max_zoom THEN max_zoom ELSE @ + zoom_step]
            ELSE IF x >= WIDTH - 100 /\ x <= WIDTH - 50 /\ y >= 80 /\ y <= 120
            THEN [c EXCEPT !.pixels_per_AU =
                     IF @ - zoom_step < min_zoom THEN min_zoom ELSE @ - zoom_step]
            ELSE c
    IN  IF x >= WIDTH - 100 /\ x <= WIDTH - 50 /\ y >= 200 /\ y <= 240
        THEN [zoomed EXCEPT !.dt = IF @ + dt_step > max_dt THEN max_dt ELSE @ + dt_step]
        ELSE IF x >= WIDTH - 100 /\ x <= WIDTH - 50 /\ y >= 260 /\ y <= 300
        THEN [zoomed EXCEPT !.dt = IF @ - dt_step < min_dt THEN min_dt ELSE @ - dt_step]
        ELSE zoomed

\* Nothing allocated.  failed: the malloc that returned NULL ("node": in
\* create_quadtree, "copy": the array or a copy of bodies); null_used: a null
\* pointer was written through; copies: the per-tick array or copies of bodies.
NoHeap ==
    [allocated |-> {}, freed |-> << >>, copies |-> "none", failed |-> "none",
     null_used |-> FALSE]

Init ==
    /\ \E n \in 1 .. MaxBodies : \E profile \in MassProfiles :
         \E ps \in [1 .. n -> Positions] :
            /\ Listed(ps)
            /\ bodies = [i \in 1 .. n |->
                            create_body(ps[i][1], ps[i][2], MassOf(profile, i))]
    /\ tree = NoTree
    /\ pc = "start"
    /\ inserted = {}
    /\ force = NoForce
    /\ prog = "lib"
    /\ idx = 0
    /\ dt = 0
    /\ frame_count = 0
    /\ evaluated = {}
    /\ written = {}
    /\ used = << >>
    /\ heap = NoHeap
    /\ trajectory = << >>
    /\ trajectory_interval = 1
    /\ frames = 0
    /\ controls = InitialControls

\* Bodies a few resolution steps apart, in the north-west corner of the
\* root: positions are doubles, any two of them can be this close.
FineCoords == {-SIMULATION_REGION * Scale + i : i \in 0 .. MaxFine}

FinePositions == {<<x, y>> : x \in FineCoords, y \in FineCoords}

FineInit ==
    /\ \E n \in 1 .. 2 : \E ps \in [1 .. n -> FinePositions] :
            /\ Listed(ps)
            /\ bodies = [i \in 1 .. n |-> create_body(ps[i][1], ps[i][2], Scale)]
    /\ tree = NoTree
    /\ pc = "start"
    /\ inserted = {}
    /\ force = NoForce
    /\ prog = "lib"
    /\ idx = 0
    /\ dt = 0
    /\ frame_count = 0
    /\ evaluated = {}
    /\ written = {}
    /\ used = << >>
    /\ heap = NoHeap
    /\ trajectory = << >>
    /\ trajectory_interval = 1
    /\ frames = 0
    /\ controls = InitialControls

\* Bodies on the west edge of the node they share (x = 0.5 in the root of
\* side 4.0, y = 0.5 and 0.75), a third body far away, and masses that are
\* not multiples of 1.0: mass is any positive double.
EdgePositions ==
    {<<Half(Scale), Half(Scale)>>,
     <<Half(Scale), Half(Scale) + Half(Half(Scale))>>,
     <<-Scale, -Scale>>}

EdgeMasses == {Scale, Scale + 1}

EdgeInit ==
    /\ \E n \in 1 .. 3 : \E ps \in [1 .. n -> EdgePositions] :
         \E ms \in [1 .. n -> EdgeMasses] :
            /\ Listed(ps)
            /\ \A i \in 1 .. n : \A j \in 1 .. n : i # j => ps[i] # ps[j]
            /\ bodies = [i \in 1 .. n |-> create_body(ps[i][1], ps[i][2], ms[i])]
    /\ tree = NoTree
    /\ pc = "start"
    /\ inserted = {}
    /\ force = NoForce
    /\ prog = "lib"
    /\ idx = 0
    /\ dt = 0
    /\ frame_count = 0
    /\ evaluated = {}
    /\ written = {}
    /\ used = << >>
    /\ heap = NoHeap
    /\ trajectory = << >>
    /\ trajectory_interval = 1
    /\ frames = 0
    /\ controls = InitialControls

\* QuadTreeNode* root = create_quadtree(...)
CreateQuadtree ==
    /\ pc = "start"
    /\ tree' = (RootPath :> FixedRoot)
    /\ pc' = "build"
    /\ inserted' = {}
    /\ force' = NoForce
    /\ UNCHANGED <<bodies, stepvars>>

\* insert_body(root, &bodies[b])
InsertBody(b) ==
    /\ pc = "build"
    /\ b \notin inserted
    /\ tree' = insert_body(tree, bodies, RootPath, b)
    /\ inserted' = inserted \cup {b}
    /\ idx' = b
    /\ UNCHANGED <<bodies, pc, force, prog, dt, frame_count, evaluated, written, used, heap,
                   trajectory_interval, frames, trajectory, controls>>

\* calculate_center_of_mass(root)
CalculateCenterOfMass ==
    /\ pc = "build"
    /\ inserted = BodyIds
    /\ tree' = calculate_center_of_mass(tree, bodies, RootPath)
    /\ pc' = "aggregated"
    /\ idx' = 0
    /\ UNCHANGED <<bodies, inserted, force, prog, dt, frame_count, evaluated, written, used, heap,
                   trajectory_interval, frames, trajectory, controls>>

\* A force evaluation that would also store its result in the tree: the
\* root's total_mass is overwritten.
CalculateForceClobbering(b, theta) ==
    /\ pc = "aggregated"
    /\ LET acc == calculate_force_from_quadtree(tree, bodies, RootPath, b, theta, ZeroForce)
       IN  force' = [target |-> b, theta |-> theta, fx |-> acc.fx, fy |-> acc.fy,
                     terms |-> acc.terms]
    /\ tree' = [tree EXCEPT ![RootPath].total_mass = 0]
    /\ pc' = "evaluated"
    /\ UNCHANGED <<bodies, inserted, stepvars>>

\* double fx = 0, fy = 0; calculate_force_from_quadtree(&bodies[b], root, theta, &fx, &fy)
CalculateForce(b, theta) ==
    /\ pc = "aggregated"
    /\ LET acc == calculate_force_from_quadtree(tree, bodies, RootPath, b, theta, ZeroForce)
       IN  force' = [target |-> b, theta |-> theta, fx |-> acc.fx, fy |-> acc.fy,
                     terms |-> acc.terms]
    /\ pc' = "evaluated"
    /\ UNCHANGED <<bodies, tree, inserted, stepvars>>

\* free_quadtree(root)
FreeQuadtree ==
    /\ pc \in {"aggregated", "evaluated"}
    /\ tree' = NoTree
    /\ pc' = "start"
    /\ inserted' = {}
    /\ force' = NoForce
    /\ UNCHANGED <<bodies, stepvars>>

Next ==
    \/ CreateQuadtree
    \/ \E b \in BodyIds : InsertBody(b)
    \/ CalculateCenterOfMass
    \/ \E b \in BodyIds : \E theta \in Thetas : CalculateForce(b, theta)
    \/ FreeQuadtree

Spec == Init /\ [][Next]_vars

SpecFine == FineInit /\ [][Next]_vars

SpecEdge == EdgeInit /\ [][Next]_vars

\* ------------------------------------------------------------- steppers

\* solar.c (first program) and asteriod.c: the force evaluation without the
\* "node->nw != NULL" test.  At the target's own leaf dist is 0, s / dist is
\* inf or NaN, the comparison with theta is false and the calls go to the
\* four NULL children.
RECURSIVE calculate_force_from_quadtree_solar(_, _, _, _, _, _)
calculate_force_from_quadtree_solar(t, bs, p, b, theta, acc) ==
    IF ~HasNode(t, p) \/ t[p].total_mass = 0 THEN acc
    ELSE LET node == t[p]
         IN  IF node.body # NULL /\ node.body # b
             THEN LeafForce(node, bs[node.body], bs[b], p, acc)
             ELSE LET dx == node.center_x - bs[b].x
                      dy == node.center_y - bs[b].y
                      dist == FSqrt(FMul(dx, dx) + FMul(dy, dy))
                      s == Max(node.width, node.height)
                  IN  IF RatioBelow(s, dist, theta)
                      THEN NodeForce(node, bs[b], dist, dx, dy, p, acc)
                      ELSE LET a1 == calculate_force_from_quadtree_solar(
                                         t, bs, Child(p, NW), b, theta, acc)
                               a2 == calculate_force_from_quadtree_solar(
                                         t, bs, Child(p, NE), b, theta, a1)
                               a3 == calculate_force_from_quadtree_solar(
                                         t, bs, Child(p, SW), b, theta, a2)
                           IN  calculate_force_from_quadtree_solar(
                                   t, bs, Child(p, SE), b, theta, a3)

\* update_body as forward Euler would have it: the position moves by the
\* velocity the body had before the call.
update_body_explicit(body, fx, fy, step) ==
    [body EXCEPT !.vx = body.vx + FMul(FDiv(fx, body.mass), step),
                 !.vy = body.vy + FMul(FDiv(fy, body.mass), step),
                 !.x = body.x + FMul(body.vx, step),
                 !.y = body.y + FMul(body.vy, step)]

\* update_body(body, fx, fy, dt)
update_body(body, fx, fy, step) ==
    LET ax == FDiv(fx, body.mass)
        ay == FDiv(fy, body.mass)
        vx == body.vx + FMul(ax, step)
        vy == body.vy + FMul(ay, step)
    IN  [body EXCEPT !.vx = vx, !.vy = vy,
                     !.x = body.x + FMul(vx, step), !.y = body.y + FMul(vy, step)]

\* main.c: calculate_force(planet, sun, &fx, &fy), the pull of the Sun alone.
calculate_force(planet, sun) ==
    LET dx == sun.x - planet.x
        dy == sun.y - planet.y
        r_squared == FMul(dx, dx) + FMul(dy, dy)
        r == FSqrt(r_squared)
        F == FDiv(FMul(FMul(G, planet.mass), sun.mass), r_squared)
    IN  IF r_squared = 0 THEN [fx |-> 0, fy |-> 0]
        ELSE [fx |-> FMul(F, FDiv(dx, r)), fy |-> FMul(F, FDiv(dy, r))]

\* main.c: the loop of update_simulation over planets[1 .. num_planets - 1];
\* the model's indices start at 1, the Sun is bodies[1].
RECURSIVE update_simulation(_, _, _, _)
update_simulation(bs, i, num_planets, step) ==
    IF i > num_planets THEN bs
    ELSE LET f == calculate_force(bs[i], bs[1])
             moved == update_body(bs[i], f.fx, f.fy, step)
         IN  update_simulation([bs EXCEPT ![i] = moved], i + 1, num_planets, step)

MinOf(S) == CHOOSE m \in S : \A o \in S : m <= o

MaxOf(S) == CHOOSE m \in S : \A o \in S : m >= o

\* The root as it would be without "make the region square": the padded
\* bounding box itself.
ComputedRootUnsquared(first, bs) ==
    LET min_x0 == MinOf({first.x} \cup {bs[i].x : i \in DOMAIN bs})
        max_x0 == MaxOf({first.x} \cup {bs[i].x : i \in DOMAIN bs})
        min_y0 == MinOf({first.y} \cup {bs[i].y : i \in DOMAIN bs})
        max_y0 == MaxOf({first.y} \cup {bs[i].y : i \in DOMAIN bs})
        padding == FMul(Max(max_x0 - min_x0, max_y0 - min_y0), Scale \div 10)
    IN  create_quadtree(min_x0 - padding, min_y0 - padding,
                        max_x0 - min_x0 + 2 * padding, max_y0 - min_y0 + 2 * padding)

\* barnes_hut.c, update_simulation_barnes_hut: the bounding box of the
\* planets, padded by a tenth of its larger span and made square.
\* The extremes start from planets[0], which is read whatever num_planets is.
ComputedRoot(first, bs) ==
    LET min_x0 == MinOf({first.x} \cup {bs[i].x : i \in DOMAIN bs})
        max_x0 == MaxOf({first.x} \cup {bs[i].x : i \in DOMAIN bs})
        min_y0 == MinOf({first.y} \cup {bs[i].y : i \in DOMAIN bs})
        max_y0 == MaxOf({first.y} \cup {bs[i].y : i \in DOMAIN bs})
        padding == FMul(Max(max_x0 - min_x0, max_y0 - min_y0), Scale \div 10)
        min_x == min_x0 - padding
        max_x == max_x0 + padding
        min_y == min_y0 - padding
        max_y == max_y0 + padding
        width == max_x - min_x
        height == max_y - min_y
        max_dim == Max(width, height)
    IN  create_quadtree(min_x, min_y, max_dim, max_dim)

\* "bh" is barnes_hut.c, "solar" the first program of solar.c, "main" its
\* second program, "ast" asteriod.c.
Programs == {"bh", "solar", "main", "ast"}

ThetaOf(pr) == IF pr = "bh" THEN BH_THETA ELSE THETA

\* asteriod.c: the first NumPlanets bodies are the planets (the Sun first),
\* the rest are the asteroids.
NumPlanets == IF Len(bodies) >= 2 THEN 2 ELSE Len(bodies)

\* The first body of the force loop.
FirstStepped == IF prog = "ast" THEN NumPlanets + 1 ELSE 1

Prefix(p, q) == Len(p) <= Len(q) /\ SubSeq(q, 1, Len(p)) = p

\* The bodies stored at or below node p.
BodiesUnder(t, p) ==
    {t[q].body : q \in {r \in DOMAIN t : Prefix(p, r) /\ t[r].body # NULL}}

\* The bodies whose mass entered the accumulated terms.
SourcesOf(t, terms) ==
    UNION {BodiesUnder(t, terms[k].node) : k \in DOMAIN terms}

InRange(bs) ==
    \A i \in DOMAIN bs : Abs(bs[i].x) <= MaxCoord * Scale /\ Abs(bs[i].y) <= MaxCoord * Scale

StepCoords == {c * Scale : c \in -1 .. 1}

StepPositions == {<<x, y>> : x \in StepCoords, y \in StepCoords}

\* A planet at rest; ax and ay are the acceleration fields of Planet.
create_planet(x, y, mass) ==
    [x |-> x, y |-> y, vx |-> 0, vy |-> 0, ax |-> 0, ay |-> 0, mass |-> mass,
     radius |-> Scale]

\* The push as it would be if a full buffer were not shifted: the newest
\* sample overwrites the last one.
push_sample_overwriting(samples, body) ==
    IF Len(samples) < MAX_TRAJECTORY_POINTS
    THEN Append(samples, [x |-> body.x, y |-> body.y])
    ELSE [samples EXCEPT ![MAX_TRAJECTORY_POINTS] = [x |-> body.x, y |-> body.y]]

\* One planet's trajectory update: trajectory_count is Len(samples).  While
\* the buffer is not full the position is stored at trajectory_count; when
\* it is full every sample moves down by one and the position is stored last.
push_sample(samples, body) ==
    IF Len(samples) < MAX_TRAJECTORY_POINTS
    THEN Append(samples, [x |-> body.x, y |-> body.y])
    ELSE Append(Tail(samples), [x |-> body.x, y |-> body.y])

\* if (*frame_count % trajectory_interval == 0) for (i < num_planets) ...
update_trajectories(traj, bs, count, interval, num_planets) ==
    IF count % interval = 0
    THEN [i \in DOMAIN traj |->
             IF i <= num_planets THEN push_sample(traj[i], bs[i]) ELSE traj[i]]
    ELSE traj

\* What the read of planets[0] yields: the first planet, or, when the array
\* is empty, whatever lies at that address.
FirstPlanet(bs) ==
    IF Len(bs) = 0
    THEN {[x |-> x, y |-> y] : x \in StepCoords, y \in StepCoords}
    ELSE {[x |-> bs[1].x, y |-> bs[1].y]}

\* The array sizes a program is run with: num_planets is a parameter of
\* barnes_hut.c only, the other programs have at least one body.
Sizes(pr) == (IF pr = "bh" THEN 0 ELSE 1) .. MaxBodies

\* The time steps a program is run with: dt is a parameter of barnes_hut.c,
\* any double; the main loops of the other programs keep it positive.
Steps(pr) == IF pr = "bh" THEN {Scale, 0, -Scale} ELSE {Scale}

StepInit ==
    /\ prog \in Programs
    /\ \E n \in Sizes(prog) : \E profile \in MassProfiles :
         \E ps \in [1 .. n -> StepPositions] :
            /\ Listed(ps)
            /\ bodies = [i \in 1 .. n |->
                            create_planet(ps[i][1], ps[i][2], MassOf(profile, i))]
    /\ tree = NoTree
    /\ pc = "idle"
    /\ inserted = {}
    /\ force = NoForce
    /\ idx = 0
    /\ dt \in Steps(prog)
    /\ frame_count = 0
    /\ evaluated = {}
    /\ written = {}
    /\ used = [b \in DOMAIN bodies |-> {}]
    /\ heap = NoHeap
    /\ trajectory = [b \in DOMAIN bodies |-> << >>]
    /\ trajectory_interval = 1
    /\ frames = MaxTicks
    /\ controls = InitialControls

\* The programs run for MaxFrames frames with one or two bodies that start
\* with a velocity, so that successive samples differ and the buffers fill.
\* trajectory_count starts at 0 (create_planet's callers) and
\* trajectory_interval is a positive number of frames (10 in the programs).
TrajInit ==
    /\ prog \in Programs
    /\ \E n \in 1 .. 2 : \E ps \in [1 .. n -> StepPositions] :
            /\ Listed(ps)
            /\ bodies = [i \in 1 .. n |->
                            [create_planet(ps[i][1], ps[i][2], 1)
                                EXCEPT !.vx = Scale]]
    /\ tree = NoTree
    /\ pc = "idle"
    /\ inserted = {}
    /\ force = NoForce
    /\ idx = 0
    /\ dt = Scale
    /\ frame_count = 0
    /\ evaluated = {}
    /\ written = {}
    /\ used = [b \in DOMAIN bodies |-> {}]
    /\ heap = NoHeap
    /\ trajectory = [b \in DOMAIN bodies |-> << >>]
    /\ trajectory_interval \in 1 .. MaxInterval
    /\ frames = MaxFrames
    /\ controls = InitialControls

\* asteriod.c main loop: update_simulation(planets, NUM_PLANETS, dt, ...)
\* moves every planet but the Sun by the pull of the Sun, and counts the frame.
UpdateSimulation ==
    /\ prog = "ast"
    /\ pc = "idle"
    /\ frame_count < frames
    /\ InRange(bodies)
    /\ bodies' = update_simulation(bodies, 2, NumPlanets, dt)
    /\ trajectory' = update_trajectories(trajectory, bodies', frame_count,
                                         trajectory_interval, NumPlanets)
    /\ evaluated' = 2 .. NumPlanets
    /\ written' = 2 .. NumPlanets
    /\ used' = [b \in DOMAIN bodies |->
                   IF b \in 2 .. NumPlanets
                      /\ (bodies[b].x # bodies[1].x \/ bodies[b].y # bodies[1].y)
                   THEN {1} ELSE {}]
    /\ frame_count' = frame_count + 1
    /\ pc' = "planets"
    /\ UNCHANGED <<tree, inserted, force, prog, idx, dt, heap,
                   trajectory_interval, frames, controls>>

\* The tick is at the call of create_quadtree for the root.
AtRoot ==
    /\ \/ prog = "ast" /\ pc = "planets"
       \/ prog \in {"bh", "solar", "main"} /\ pc = "idle" /\ frame_count < frames
    /\ InRange(bodies)

\* The programs that copy bodies for the tick: solar.c mallocs all_bodies,
\* asteriod.c one planetBodies[i] per planet.
Copying == {"solar", "ast"}

\* The start of a tick: the root of the tick's quadtree.
CreateRoot ==
    /\ AtRoot
    /\ heap' = [heap EXCEPT !.allocated = {RootPath}, !.freed = << >>,
                            !.copies = IF prog \in Copying THEN "live" ELSE "none"]
    /\ \E first \in FirstPlanet(bodies) :
          tree' = (RootPath :> IF prog = "bh" THEN ComputedRoot(first, bodies)
                               ELSE FixedRoot)
    /\ inserted' = {}
    /\ force' = NoForce
    /\ idx' = 1
    /\ evaluated' = IF prog = "ast" THEN evaluated ELSE {}
    /\ written' = IF prog = "ast" THEN written ELSE {}
    /\ used' = IF prog = "ast" THEN used ELSE [b \in DOMAIN bodies |-> {}]
    /\ pc' = "insert"
    /\ UNCHANGED <<bodies, prog, dt, frame_count,
                   trajectory_interval, frames, trajectory, controls>>

\* for (i ...) insert_body(root, &bodies[i])
StepInsert ==
    /\ pc = "insert"
    /\ idx <= Len(bodies)
    /\ tree' = insert_body(tree, bodies, RootPath, idx)
    /\ inserted' = inserted \cup {idx}
    /\ idx' = idx + 1
    /\ heap' = [heap EXCEPT !.allocated = DOMAIN tree']
    /\ UNCHANGED <<bodies, pc, force, prog, dt, frame_count, evaluated, written, used,
                   trajectory_interval, frames, trajectory, controls>>

\* calculate_center_of_mass(root), after the last insertion
StepAggregate ==
    /\ pc = "insert"
    /\ idx > Len(bodies)
    /\ tree' = calculate_center_of_mass(tree, bodies, RootPath)
    /\ idx' = FirstStepped
    /\ pc' = IF FirstStepped > Len(bodies) THEN "end" ELSE "force"
    /\ UNCHANGED <<bodies, inserted, force, prog, dt, frame_count, evaluated, written, used, heap,
                   trajectory_interval, frames, trajectory, controls>>

\* The force on bodies[idx].  barnes_hut.c stores the acceleration and goes
\* on to the next planet; the other programs go on to update_body.
StepForce ==
    /\ pc = "force"
    /\ InRange(bodies)
    /\ LET acc == IF prog \in {"solar", "ast"}
                  THEN calculate_force_from_quadtree_solar(
                           tree, bodies, RootPath, idx, ThetaOf(prog), ZeroForce)
                  ELSE calculate_force_from_quadtree(
                           tree, bodies, RootPath, idx, ThetaOf(prog), ZeroForce)
       IN  /\ force' = [target |-> idx, theta |-> ThetaOf(prog), fx |-> acc.fx,
                        fy |-> acc.fy, terms |-> acc.terms]
           /\ used' = [used EXCEPT ![idx] = SourcesOf(tree, acc.terms)]
           /\ bodies' = IF prog = "bh"
                        THEN [bodies EXCEPT ![idx].ax = FDiv(acc.fx, bodies[idx].mass),
                                            ![idx].ay = FDiv(acc.fy, bodies[idx].mass)]
                        ELSE bodies
    /\ evaluated' = evaluated \cup {idx}
    /\ idx' = IF prog # "bh" THEN idx ELSE IF idx = Len(bodies) THEN 1 ELSE idx + 1
    /\ pc' = IF prog # "bh" THEN "update_body"
             ELSE IF idx = Len(bodies) THEN "update" ELSE "force"
    /\ UNCHANGED <<tree, inserted, prog, dt, frame_count, written, heap,
                   trajectory_interval, frames, trajectory, controls>>

\* barnes_hut.c: the second loop, velocity and position from the stored
\* acceleration.
StepUpdate ==
    /\ prog = "bh"
    /\ pc = "update"
    /\ LET body == bodies[idx]
           vx == body.vx + FMul(body.ax, dt)
           vy == body.vy + FMul(body.ay, dt)
       IN  bodies' = [bodies EXCEPT ![idx].vx = vx, ![idx].vy = vy,
                                    ![idx].x = body.x + FMul(vx, dt),
                                    ![idx].y = body.y + FMul(vy, dt)]
    /\ written' = written \cup {idx}
    /\ idx' = idx + 1
    /\ pc' = IF idx = Len(bodies) THEN "end" ELSE "update"
    /\ UNCHANGED <<tree, inserted, force, prog, dt, frame_count, evaluated, used, heap,
                   trajectory_interval, frames, trajectory, controls>>

\* solar.c and asteriod.c: update_body(&bodies[i], fx, fy, dt) inside the
\* force loop; the first program of solar.c also stores the acceleration.
StepUpdateBody ==
    /\ prog \in {"solar", "main", "ast"}
    /\ pc = "update_body"
    /\ LET moved == update_body(bodies[idx], force.fx, force.fy, dt)
       IN  bodies' = [bodies EXCEPT ![idx] =
                         IF prog = "solar"
                         THEN [moved EXCEPT !.ax = FDiv(force.fx, moved.mass),
                                            !.ay = FDiv(force.fy, moved.mass)]
                         ELSE moved]
    /\ written' = written \cup {idx}
    /\ idx' = idx + 1
    /\ pc' = IF idx = Len(bodies) THEN "end" ELSE "force"
    /\ UNCHANGED <<tree, inserted, force, prog, dt, frame_count, evaluated, used, heap,
                   trajectory_interval, frames, trajectory, controls>>

\* asteriod.c: free(planetBodies[i]) for every planet, before the tree is
\* freed.
FreeCopies ==
    /\ prog = "ast"
    /\ pc = "end"
    /\ heap' = [heap EXCEPT !.copies = "freed"]
    /\ pc' = "free_tree"
    /\ UNCHANGED <<bodies, tree, inserted, force, prog, idx, dt, frame_count,
                   evaluated, written, used,
                   trajectory_interval, frames, trajectory, controls>>

\* A malloc of create_quadtree returns NULL, for the root or for a child in
\* subdivide: the message is printed and exit(EXIT_FAILURE) ends the process.
\* A failure at the root is in a new tick, where no body is evaluated or
\* written yet.
NodeAllocationFails ==
    /\ prog \in Programs
    /\ heap.failed = "none"
    /\ \/ AtRoot
       \/ /\ pc = "insert"
          /\ idx <= Len(bodies)
          /\ DOMAIN insert_body(tree, bodies, RootPath, idx) # DOMAIN tree
    /\ heap' = [heap EXCEPT !.failed = "node"]
    /\ pc' = "exit"
    /\ evaluated' = IF pc = "idle" THEN {} ELSE evaluated
    /\ written' = IF pc = "idle" THEN {} ELSE written
    /\ UNCHANGED <<bodies, tree, inserted, force, prog, idx, dt, frame_count, used,
                   trajectory_interval, frames, trajectory, controls>>

\* The malloc of all_bodies (solar.c, start of the tick) or of a
\* planetBodies[i] (asteriod.c, in the loop that inserts the planets) returns
\* NULL.  The result is not tested and the next statement writes through it:
\* the process is killed by the signal, or the write passes and the tick
\* goes on.
CopyAllocationFails ==
    /\ heap.failed = "none"
    /\ \/ prog = "solar" /\ AtRoot
       \/ prog = "ast" /\ pc = "insert" /\ idx <= NumPlanets
    /\ heap' = [heap EXCEPT !.failed = "copy", !.null_used = TRUE]
    /\ pc' \in {"crashed", pc}
    /\ evaluated' = IF pc = "idle" THEN {} ELSE evaluated
    /\ written' = IF pc = "idle" THEN {} ELSE written
    /\ UNCHANGED <<bodies, tree, inserted, force, prog, idx, dt, frame_count, used,
                   trajectory_interval, frames, trajectory, controls>>

\* The end of the tick: the trajectory samples, free_quadtree(root) and the
\* frame counter (asteriod.c sampled and counted the frame in
\* update_simulation); solar.c frees all_bodies after the tree.
EndTick ==
    /\ \/ prog = "ast" /\ pc = "free_tree"
       \/ prog # "ast" /\ pc = "end"
    /\ heap' = [heap EXCEPT !.freed = free_quadtree(tree, RootPath),
                            !.copies = IF prog = "solar" THEN "freed" ELSE @]
    /\ tree' = NoTree
    /\ inserted' = {}
    /\ trajectory' = IF prog = "ast" THEN trajectory
                     ELSE update_trajectories(trajectory, bodies, frame_count,
                                              trajectory_interval, Len(bodies))
    /\ frame_count' = IF prog = "ast" THEN frame_count ELSE frame_count + 1
    /\ pc' = "idle"
    /\ UNCHANGED <<bodies, force, prog, idx, dt, evaluated, written, used,
                   trajectory_interval, frames, controls>>

StepNext ==
    \/ UpdateSimulation
    \/ CreateRoot
    \/ StepInsert
    \/ StepAggregate
    \/ StepForce
    \/ StepUpdate
    \/ StepUpdateBody
    \/ FreeCopies
    \/ EndTick
    \/ NodeAllocationFails
    \/ CopyAllocationFails

SpecStep == StepInit /\ [][StepNext]_vars

SpecTraj == TrajInit /\ [][StepNext]_vars

\* ------------------------------------------------------ the main loop's controls

\* The clicks tried: on and next to every edge of the four buttons.
ClickXs == {WIDTH - 101, WIDTH - 100, WIDTH - 50, WIDTH - 49}

ClickYs == {19, 20, 60, 61, 79, 80, 120, 121, 199, 200, 240, 241, 259, 260, 300, 301}

\* solar.c main: the simulation set up, the window open, the loop entered.
UIInit ==
    /\ prog = "main"
    /\ bodies = <<create_planet(0, 0, Scale)>>
    /\ tree = NoTree
    /\ pc = "idle"
    /\ inserted = {}
    /\ force = NoForce
    /\ idx = 0
    /\ dt = Scale
    /\ frame_count = 0
    /\ evaluated = {}
    /\ written = {}
    /\ used = [b \in DOMAIN bodies |-> {}]
    /\ heap = NoHeap
    /\ trajectory = [b \in DOMAIN bodies |-> << >>]
    /\ trajectory_interval = 1
    /\ frames = 0
    /\ controls = InitialControls

\* while (SDL_PollEvent(&event)): one SDL_MOUSEBUTTONDOWN at (x, y).
MouseButtonDown(x, y) ==
    /\ controls.clicks < MaxClicks
    /\ controls' = [on_click(controls, x, y) EXCEPT !.clicks = @ + 1]
    /\ UNCHANGED <<bodies, tree, pc, inserted, force, prog, idx, dt, frame_count,
                   evaluated, written, used, heap, trajectory,
                   trajectory_interval, frames>>

\* The event queue is empty: the frame's simulation step is called with dt.
\* What the step does with it is SpecStep's.
Frame ==
    /\ controls' = [controls EXCEPT !.handed = <<controls.dt>>, !.clicks = 0]
    /\ UNCHANGED <<bodies, tree, pc, inserted, force, prog, idx, dt, frame_count,
                   evaluated, written, used, heap, trajectory,
                   trajectory_interval, frames>>

UINext ==
    \/ \E x \in ClickXs : \E y \in ClickYs : MouseButtonDown(x, y)
    \/ Frame

SpecUI == UIInit /\ [][UINext]_vars

\* ---------------------------------------------------- properties: quadtree

Aggregated == prog = "lib" /\ pc \in {"aggregated", "evaluated"}

Internal(t, p) == HasNode(t, Child(p, NW))

RECURSIVE SumMass(_, _)
SumMass(bs, S) ==
    IF S = {} THEN 0
    ELSE LET b == CHOOSE c \in S : TRUE
         IN  bs[b].mass + SumMass(bs, S \ {b})

SamePlace(a, b) == a.x = b.x /\ a.y = b.y

Coincident(S) == \E a \in S : \E b \in S : a # b /\ SamePlace(bodies[a], bodies[b])

\* The two bodies are at least EPSILON apart, as the force code measures it.
Apart(a, b) ==
    FSqrt(FMul(a.x - b.x, a.x - b.x) + FMul(a.y - b.y, a.y - b.y)) >= EPSILON

Depth(t) == MaxOf({Len(p) : p \in DOMAIN t})

\* The force of the direct pairwise sum over the bodies o .. Len(bs) other
\* than b, each term computed as the leaf term of the force evaluation.
RECURSIVE DirectSum(_, _, _, _)
DirectSum(bs, b, o, acc) ==
    IF o > Len(bs) THEN acc
    ELSE DirectSum(bs, b, o + 1,
                   IF o = b THEN acc
                   ELSE LeafForce(FixedRoot, bs[o], bs[b], RootPath, acc))

\* C1: after the bodies have been inserted at the root and
\* calculate_center_of_mass has run once, the total_mass of every internal
\* node is the sum of the total_mass of its four children, and the total_mass
\* of the root is the sum of the masses of all the bodies that were inserted.
C1_MassConservation ==
    Aggregated =>
        /\ \A p \in DOMAIN tree :
              Internal(tree, p) =>
                  tree[p].total_mass =
                      tree[Child(p, NW)].total_mass + tree[Child(p, NE)].total_mass
                      + tree[Child(p, SW)].total_mass + tree[Child(p, SE)].total_mass
        /\ tree[RootPath].total_mass = SumMass(bodies, inserted)

\* C2: whatever the shape of the tree and the threshold theta, no term of the
\* evaluated force includes the mass of the target itself: neither the leaf
\* that holds the target nor an internal node whose subtree holds it.
C2_NoSelfForce ==
    (prog = "lib" /\ pc = "evaluated") =>
        \A k \in DOMAIN force.terms :
            force.target \notin BodiesUnder(tree, force.terms[k].node)

\* C3: with theta = 0 the force evaluation approximates no internal node and
\* adds exactly one direct term for every other body (pairs closer than
\* EPSILON excepted), so the force is the direct sum over the other bodies.
C3_ExactAtThetaZero ==
    (prog = "lib" /\ pc = "evaluated" /\ force.theta = 0) =>
        LET direct == DirectSum(bodies, force.target, 1, ZeroForce)
        IN  /\ \A k \in DOMAIN force.terms : force.terms[k].direct
            /\ \A o \in BodyIds \ {force.target} :
                  Cardinality({k \in DOMAIN force.terms :
                                  tree[force.terms[k].node].body = o})
                  = IF Apart(bodies[o], bodies[force.target]) THEN 1 ELSE 0
            /\ force.fx = direct.fx
            /\ force.fy = direct.fy

\* The maximum depth the design asks the tree to be configured with.
MaxDepth == 6

\* More halvings than any node of the model can take.
MaxHalvings == 12

\* C6: inserting bodies with identical coordinates stops subdividing at the
\* configured maximum depth and merges the colliding bodies into one leaf:
\* the tree is never deeper than MaxDepth, and after aggregation a leaf at
\* the place of the colliding bodies carries their masses together.
C6_CoincidentMerged ==
    (prog = "lib" /\ pc \in {"build", "aggregated", "evaluated"}) =>
        /\ Depth(tree) <= MaxDepth
        /\ Aggregated =>
              \A a \in inserted :
                  LET group == {b \in inserted : SamePlace(bodies[a], bodies[b])}
                  IN  Cardinality(group) > 1 =>
                          \E p \in DOMAIN tree :
                              /\ ~Internal(tree, p)
                              /\ is_in_bounds(tree[p], bodies[a])
                              /\ tree[p].total_mass = SumMass(bodies, group)

\* The tree of the set S of bodies inserted in the order of the array.
RECURSIVE InsertInOrder(_, _, _, _)
InsertInOrder(t, bs, i, S) ==
    IF i > Len(bs) THEN t
    ELSE InsertInOrder(IF i \in S THEN insert_body(t, bs, RootPath, i) ELSE t,
                       bs, i + 1, S)

\* C7: for bodies at pairwise distinct positions inside the root, the tree
\* does not depend on the order of insertion: in whatever order the bodies
\* were inserted, the tree has the nodes, regions and leaf bodies of the tree
\* built in the order of the array, and after aggregation the same
\* total_mass and center of mass at every node.
C7_OrderIndependence ==
    (prog = "lib" /\ pc \in {"build", "aggregated", "evaluated"}
     /\ ~Coincident(inserted)) =>
        LET inorder == InsertInOrder(RootPath :> FixedRoot, bodies, 1, inserted)
        IN  tree = IF pc = "build" THEN inorder
                   ELSE calculate_center_of_mass(inorder, bodies, RootPath)

\* Three bodies at distinct places, all inserted, the first of the array
\* inserted last, and the tree subdivided twice.
C7_Witness ==
    /\ prog = "lib" /\ pc = "build"
    /\ Len(bodies) = 3 /\ inserted = BodyIds /\ ~Coincident(inserted)
    /\ idx = 1
    /\ Depth(tree) >= 2

\* C9: two bodies of mass 1 at distance 1 with G = 1: for every theta the
\* force on each has magnitude 1 and points at the other, that is, it is the
\* unit vector from the target to the other body.
C9_TwoBodyExactness ==
    (prog = "lib" /\ pc = "evaluated" /\ Len(bodies) = 2
     /\ bodies[1].mass = Scale /\ bodies[2].mass = Scale
     /\ Abs(bodies[1].x - bodies[2].x) + Abs(bodies[1].y - bodies[2].y) = Scale) =>
        LET other == bodies[3 - force.target]
            target == bodies[force.target]
        IN  force.fx = other.x - target.x /\ force.fy = other.y - target.y

\* C10: two bodies of equal mass at (p, q) and (-p, -q) and a third at the
\* origin: the force evaluated on the third is zero in both components.
C10_Symmetry ==
    (prog = "lib" /\ pc = "evaluated" /\ Len(bodies) = 3) =>
        \A a \in BodyIds : \A b \in BodyIds :
            (/\ a # b /\ force.target \notin {a, b}
             /\ bodies[force.target].x = 0 /\ bodies[force.target].y = 0
             /\ bodies[a].mass = bodies[b].mass
             /\ bodies[a].x = -bodies[b].x /\ bodies[a].y = -bodies[b].y)
            => (force.fx = 0 /\ force.fy = 0)

\* ---------------------------------------------------- properties: steppers

\* C4: within a tick no position or velocity is written before the force on
\* every body has been evaluated.
C4_ForcesBeforeUpdates ==
    (prog \in Programs /\ written # {}) => evaluated = BodyIds

\* C5: in every tick of every stepper, every body lies within the bounds of
\* the root when it is inserted, so every insertion at the root stores it.
C5_BodiesInsideRoot ==
    (prog \in Programs /\ pc = "insert") =>
        \A b \in inserted :
            /\ is_in_bounds(tree[RootPath], bodies[b])
            /\ b \in BodiesUnder(tree, RootPath)

\* C8: in every program, the velocity update of each body in a tick uses the
\* force summed over all the other bodies, not the force of the Sun alone.
C8_AllBodiesInteract ==
    prog \in Programs => \A b \in written : used[b] = BodyIds \ {b}

\* The force in the accumulators was evaluated on the positions the bodies
\* have now.
JustEvaluated ==
    /\ prog \in Programs
    /\ force.target # NULL
    /\ \/ prog = "bh" /\ written = {}
       \/ prog # "bh" /\ pc = "update_body"

\* C11: a body of the tree closer than EPSILON to the target adds no term,
\* the evaluation goes on to the other nodes (every other body of the tree
\* is in a term), and no term divides by a distance below EPSILON.
C11_SofteningGuard ==
    JustEvaluated =>
        /\ \A o \in BodiesUnder(tree, RootPath) \ {force.target} :
              IF Apart(bodies[o], bodies[force.target])
              THEN o \in SourcesOf(tree, force.terms)
              ELSE \A k \in DOMAIN force.terms :
                      ~(force.terms[k].direct /\ tree[force.terms[k].node].body = o)
        /\ \A k \in DOMAIN force.terms : force.terms[k].distance >= EPSILON

\* A body of the tree lies on the target, and another body was added.
C11_Witness ==
    /\ JustEvaluated
    /\ \E o \in BodiesUnder(tree, RootPath) \ {force.target} :
          ~Apart(bodies[o], bodies[force.target])
    /\ force.terms # << >>

\* C12: on an aggregated tree whose structure and bodies are unchanged, a
\* second calculate_center_of_mass leaves every node's total_mass and center
\* of mass as the first run left them.
C12_IdempotentAggregation ==
    Aggregated => calculate_center_of_mass(tree, bodies, RootPath) = tree

\* An aggregated tree with an internal node that carries mass.
C12_Witness ==
    /\ Aggregated
    /\ \E p \in DOMAIN tree : Internal(tree, p) /\ tree[p].total_mass > 0

\* C13: a stepper called with an empty body collection fails fast: it
\* creates no root and no tree node and does not complete a tick.
C13_EmptyFailsFast ==
    (prog \in Programs /\ Len(bodies) = 0) =>
        /\ tree = NoTree
        /\ pc \in {"idle", "failed"}
        /\ frame_count = 0

\* C14: a stepper call with a non-positive dt is rejected before any tree
\* node is created and leaves every body's position and velocity as they
\* were (the bodies start at rest and no body is written).
C14_InvalidInputRejected ==
    (prog \in Programs /\ dt <= 0) =>
        /\ tree = NoTree
        /\ written = {}
        /\ \A b \in BodyIds : bodies[b].vx = 0 /\ bodies[b].vy = 0

\* C15: when an allocation of the tick has failed, no null pointer is used,
\* the process has ended through exit, and no body has been written in the
\* tick.
C15_AllocationFailureAborts ==
    (prog \in Programs /\ heap.failed # "none") =>
        /\ ~heap.null_used
        /\ pc = "exit"
        /\ written = {}

TreePhases == {"insert", "force", "update_body", "update", "end"}

\* C17: the step that ends a tick frees every node allocated for the tick's
\* tree exactly once and leaves no tree behind, free_quadtree changes no
\* body, a tree in use has no freed node, and once the copies of bodies are
\* freed no phase that reads bodies through the tree follows in the tick.
C17_TreeLifecycle ==
    [][/\ (pc \in {"end", "free_tree"} /\ pc' = "idle") =>
             /\ tree' = NoTree
             /\ bodies' = bodies
             /\ Len(heap'.freed) = Cardinality(heap.allocated)
             /\ {heap'.freed[k] : k \in DOMAIN heap'.freed} = DOMAIN tree
             /\ DOMAIN tree = heap.allocated
       /\ (tree' # NoTree) => heap'.freed = << >>
       /\ (prog = "ast" /\ heap'.copies = "freed") => pc' \notin TreePhases]_vars

\* A tick has ended whose tree had children; in asteriod.c the copies of
\* the planets were freed before it.
C17_Witness ==
    /\ prog \in Programs
    /\ pc = "idle"
    /\ Len(heap.freed) > 1
    /\ prog = "ast" => heap.copies = "freed"

\* The children the node at p has.
Children(t, p) == {q \in {NW, NE, SW, SE} : HasNode(t, Child(p, q))}

\* C18: every node of the tree is a leaf (no child; no body or one body of
\* the array) or internal (four children and no body): the children are
\* never partly set and a node with children holds no body.
C18_LeafOrInternal ==
    prog = "lib" =>
        \A p \in DOMAIN tree :
            /\ Children(tree, p) \in {{}, {NW, NE, SW, SE}}
            /\ Children(tree, p) # {} => tree[p].body = NULL
            /\ tree[p].body \in {NULL} \cup BodyIds

\* A tree with an internal node, a leaf that holds a body and an empty leaf.
C18_Witness ==
    /\ prog = "lib"
    /\ \E p \in DOMAIN tree : Children(tree, p) # {}
    /\ \E p \in DOMAIN tree : Children(tree, p) = {} /\ tree[p].body # NULL
    /\ \E p \in DOMAIN tree : Children(tree, p) = {} /\ tree[p].body = NULL

\* The children of the node at p whose bounds contain the body.
Containing(t, p, body) ==
    {q \in Children(t, p) : is_in_bounds(t[Child(p, q)], body)}

\* C19: for every subdivided node and every body position inside its
\* bounds, exactly one child contains the position and it is the child
\* get_quadrant returns; a coordinate on the node's midpoint goes to the
\* east (x) or south (y) child.
C19_QuadrantPartition ==
    prog = "lib" =>
        \A p \in DOMAIN tree : \A b \in BodyIds :
            (Internal(tree, p) /\ is_in_bounds(tree[p], bodies[b])) =>
                /\ Containing(tree, p, bodies[b]) = {get_quadrant(tree[p], bodies[b])}
                /\ bodies[b].x = tree[p].x + Half(tree[p].width)
                      => get_quadrant(tree[p], bodies[b]) \in {NE, SE}
                /\ bodies[b].y = tree[p].y + Half(tree[p].height)
                      => get_quadrant(tree[p], bodies[b]) \in {SW, SE}

\* The phases of a tick that follow calculate_center_of_mass.
AfterAggregation == {"force", "update_body", "update", "end", "free_tree"}

\* C20: in every tick of every stepper the bodies are inserted one after
\* the other, each once and before any force of the tick is evaluated; after
\* the aggregation every body has been inserted and none is inserted again;
\* the force is evaluated once per body, for every body, before the tree is
\* freed; between ticks there is no tree.
C20_PhaseOrder ==
    prog \in Programs =>
        /\ pc = "insert" => inserted = 1 .. (idx - 1) /\ evaluated = {}
        /\ pc \in AfterAggregation => inserted = BodyIds
        /\ pc = "force" => idx \notin evaluated
        /\ pc \in {"end", "free_tree"} => evaluated = BodyIds
        /\ pc = "idle" => tree = NoTree

\* ------------------------------------------- properties: opening criterion

\* The distance from the target to the center of mass of the node.
CenterDistance(node, body) ==
    FSqrt(FMul(node.center_x - body.x, node.center_x - body.x)
          + FMul(node.center_y - body.y, node.center_y - body.y))

\* s / d < theta for the node and the target, s = max(width, height).
Opens(node, body, theta) ==
    /\ CenterDistance(node, body) # 0
    /\ TruncDiv(Max(node.width, node.height) * Scale, CenterDistance(node, body)) < theta

\* The terms of the last evaluation that account for body o.
TermsOf(o) ==
    {k \in DOMAIN force.terms : o \in BodiesUnder(tree, force.terms[k].node)}

\* C21: in one force evaluation an internal node adds a term, with its
\* total_mass, only when s/d < theta, and then no term comes from below it;
\* an internal node above a term has s/d >= theta and adds no term; every
\* body of the tree other than the target is accounted for by exactly one
\* term, its own leaf's or that of one approximated ancestor.
C21_OpeningCriterion ==
    (prog = "lib" /\ pc = "evaluated") =>
        /\ \A k \in DOMAIN force.terms :
              LET p == force.terms[k].node
              IN  /\ force.terms[k].direct =>
                        ~Internal(tree, p) /\ tree[p].body # force.target
                  /\ ~force.terms[k].direct =>
                        /\ Internal(tree, p)
                        /\ Opens(tree[p], bodies[force.target], force.theta)
                        /\ force.terms[k].mass = tree[p].total_mass
                  /\ \A j \in DOMAIN force.terms :
                        j # k => ~Prefix(force.terms[j].node, p)
                  /\ \A q \in DOMAIN tree :
                        (Prefix(q, p) /\ q # p) =>
                            ~Opens(tree[q], bodies[force.target], force.theta)
        /\ \A o \in BodiesUnder(tree, RootPath) \ {force.target} :
              Cardinality(TermsOf(o)) = 1

\* An evaluation that opened the root and approximated a node below it that
\* holds two bodies.
C21_Witness ==
    /\ prog = "lib"
    /\ pc = "evaluated"
    /\ \E k \in DOMAIN force.terms :
          /\ ~force.terms[k].direct
          /\ Len(force.terms[k].node) >= 1
          /\ Cardinality(BodiesUnder(tree, force.terms[k].node)) >= 2

\* ------------------------------------------------- properties: integrator

\* The acceleration the integration step of body b uses: barnes_hut.c reads
\* the stored ax, ay, update_body divides the force by the mass.
Acceleration(b) ==
    IF prog = "bh" THEN [x |-> bodies[b].ax, y |-> bodies[b].ay]
    ELSE [x |-> FDiv(force.fx, bodies[b].mass), y |-> FDiv(force.fy, bodies[b].mass)]

\* C22: the integration step of a body is semi-implicit Euler on each axis:
\* the new velocity is v + a * dt with a = f / mass, the new position is
\* x + (new velocity) * dt; mass and radius stay, and no other body moves.
C22_SemiImplicitEuler ==
    [][/\ (prog \in Programs /\ pc \in {"update_body", "update"}) =>
             /\ bodies'[idx].vx = bodies[idx].vx + FMul(Acceleration(idx).x, dt)
             /\ bodies'[idx].vy = bodies[idx].vy + FMul(Acceleration(idx).y, dt)
             /\ bodies'[idx].x = bodies[idx].x + FMul(bodies'[idx].vx, dt)
             /\ bodies'[idx].y = bodies[idx].y + FMul(bodies'[idx].vy, dt)
             /\ bodies'[idx].mass = bodies[idx].mass
             /\ bodies'[idx].radius = bodies[idx].radius
             /\ \A o \in BodyIds \ {idx} : bodies'[o] = bodies[o]
       /\ (prog = "bh" /\ pc = "force") =>
             /\ bodies'[idx].ax = FDiv(force'.fx, bodies[idx].mass)
             /\ bodies'[idx].ay = FDiv(force'.fy, bodies[idx].mass)]_vars

\* A body has been integrated by update_body, or by the second loop of
\* barnes_hut.c, and moves.
C22_Witness ==
    /\ prog \in {"bh", "solar", "main"}
    /\ \E b \in written : bodies[b].vx # 0 /\ bodies[b].vy # 0

\* ------------------------------------------------ properties: root region

\* The bounding box of the bodies.
Box ==
    [min_x |-> MinOf({bodies[i].x : i \in BodyIds}),
     max_x |-> MaxOf({bodies[i].x : i \in BodyIds}),
     min_y |-> MinOf({bodies[i].y : i \in BodyIds}),
     max_y |-> MaxOf({bodies[i].y : i \in BodyIds})]

\* A tenth of the larger span of the bounding box.
Padding == TruncDiv(Max(Box.max_x - Box.min_x, Box.max_y - Box.min_y), 10)

\* barnes_hut.c has a root computed from the planets as they are now.
RootComputed ==
    /\ prog = "bh"
    /\ Len(bodies) >= 1
    /\ tree # NoTree
    /\ written = {}

\* C23: the root of barnes_hut.c is square, its side is the larger of the
\* two padded extents, the padding on each side is a tenth of the larger
\* span, and the padded bounding box lies inside the root.
C23_SquarePaddedRoot ==
    RootComputed =>
        LET root == tree[RootPath]
        IN  /\ root.width = root.height
            /\ root.width = Max(Box.max_x - Box.min_x, Box.max_y - Box.min_y) + 2 * Padding
            /\ root.x = Box.min_x - Padding
            /\ root.y = Box.min_y - Padding
            /\ root.x + root.width >= Box.max_x + Padding
            /\ root.y + root.height >= Box.max_y + Padding

\* A root computed from planets whose spans differ and are not zero.
C23_Witness ==
    /\ RootComputed
    /\ Box.max_x - Box.min_x > Box.max_y - Box.min_y
    /\ Box.max_y - Box.min_y > 0

\* ----------------------------------------------- properties: aggregation

SampleOf(bs, b) == [x |-> bs[b].x, y |-> bs[b].y]

\* C25: in every step frame_count stays or grows by exactly one; every
\* trajectory holds between 0 and MAX_TRAJECTORY_POINTS samples; a trajectory
\* changes only in a step that ends a tick whose frame_count is a multiple of
\* trajectory_interval; and a changed trajectory is the old one with the
\* current position appended when it was not full, and the old one without
\* its oldest sample, the others in order, the current position last, when
\* it was full.
C25_TrajectoryBuffer ==
    [][ /\ frame_count' \in {frame_count, frame_count + 1}
        /\ \A b \in DOMAIN trajectory' :
              Len(trajectory'[b]) \in 0 .. MAX_TRAJECTORY_POINTS
        /\ trajectory' # trajectory =>
              /\ frame_count' = frame_count + 1
              /\ frame_count % trajectory_interval = 0
        /\ \A b \in DOMAIN trajectory :
              trajectory'[b] # trajectory[b] =>
                 IF Len(trajectory[b]) < MAX_TRAJECTORY_POINTS
                 THEN trajectory'[b] =
                         Append(trajectory[b], SampleOf(bodies', b))
                 ELSE /\ Len(trajectory'[b]) = MAX_TRAJECTORY_POINTS
                      /\ \A j \in 1 .. MAX_TRAJECTORY_POINTS - 1 :
                            trajectory'[b][j] = trajectory[b][j + 1]
                      /\ trajectory'[b][MAX_TRAJECTORY_POINTS] =
                            SampleOf(bodies', b)
      ]_vars

\* A full buffer that has dropped its oldest sample: more pushes than the
\* capacity have happened, the samples differ and the newest one is the
\* body's position.
C25_Witness ==
    /\ pc = "idle"
    /\ frame_count > MAX_TRAJECTORY_POINTS * trajectory_interval
    /\ \E b \in DOMAIN trajectory :
          /\ Len(trajectory[b]) = MAX_TRAJECTORY_POINTS
          /\ trajectory[b][1] # trajectory[b][MAX_TRAJECTORY_POINTS]
          /\ trajectory[b][MAX_TRAJECTORY_POINTS] = SampleOf(bodies, b)

\* The nodes that reference body b.
Referencing(t, b) == {p \in DOMAIN t : t[p].body = b}

\* C26: while the tree is built from bodies of pairwise distinct positions
\* inside the root bounds, every inserted body is referenced by exactly one
\* node, that node is a leaf and its bounds contain the body's position.
C26_EveryBodyInOneLeaf ==
    (prog = "lib" /\ pc = "build" /\ ~Coincident(inserted)
        /\ \A b \in inserted : is_in_bounds(FixedRoot, bodies[b])) =>
        \A b \in inserted :
            /\ Cardinality(Referencing(tree, b)) = 1
            /\ \A p \in Referencing(tree, b) :
                  /\ ~Internal(tree, p)
                  /\ is_in_bounds(tree[p], bodies[b])

\* The leaf insert_body(root, body) descends to: the path of get_quadrant
\* choices from the node at p down to a node without children.
RECURSIVE Landing(_, _, _)
Landing(t, p, body) ==
    IF Internal(t, p) THEN Landing(t, Child(p, get_quadrant(t[p], body)), body)
    ELSE p

\* The number of halvings of the region (x, y, width, height) after which the
\* positions a and b lie in different quarters, MaxHalvings at most.
RECURSIVE Halvings(_, _, _, _, _, _, _)
Halvings(x, y, width, height, a, b, done) ==
    LET mid_x == x + Half(width)
        mid_y == y + Half(height)
    IN  IF done + 1 >= MaxHalvings THEN MaxHalvings
        ELSE IF (a.x < mid_x) # (b.x < mid_x) \/ (a.y < mid_y) # (b.y < mid_y)
        THEN done + 1
        ELSE Halvings(IF a.x < mid_x THEN x ELSE mid_x,
                      IF a.y < mid_y THEN y ELSE mid_y,
                      Half(width), Half(height), a, b, done + 1)

\* The subdivisions of a step: each one creates four nodes.
Subdivisions == (Cardinality(DOMAIN tree') - Cardinality(DOMAIN tree)) \div 4

\* The halvings that separate body b from the body of the leaf it lands in;
\* none when that leaf is empty.
Separation(t, b) ==
    LET leaf == t[Landing(t, RootPath, bodies[b])]
    IN  IF leaf.body = NULL THEN 0
        ELSE Halvings(leaf.x, leaf.y, leaf.width, leaf.height,
                      bodies[b], bodies[leaf.body], 0)

\* C27: an insert_body at the root of a body that lies inside the root, into
\* a tree whose bodies together with the new one have pairwise distinct
\* positions, returns, and it subdivides at most as many nodes as it takes
\* halvings of the leaf the body lands in to separate the body from the
\* body of that leaf (none when the leaf is empty).
C27_InsertTerminates ==
    [][ (prog = "lib" /\ pc = "build" /\ inserted' # inserted
            /\ ~Coincident(inserted')) =>
           /\ Subdivisions <= Separation(tree, idx')
           /\ Subdivisions < MaxHalvings
      ]_vars

\* An insert that took more than one subdivision to separate two bodies.
C27_Witness ==
    /\ prog = "lib"
    /\ pc = "build"
    /\ Cardinality(inserted) = 2
    /\ ~Coincident(inserted)
    /\ Cardinality(DOMAIN tree) >= 9
    /\ \A b \in inserted : Referencing(tree, b) # {}

\* C28: an insert_body(root, body) of a body whose position is outside the
\* root's bounds changes nothing in the tree (no node is created, no body or
\* child pointer changes, every body stays in its leaf) and reports nothing:
\* the loop goes on to the next body and no failure is recorded.
C28_OutOfBoundsIgnored ==
    [][ (pc = "insert" /\ idx \in DOMAIN bodies /\ idx' = idx + 1
            /\ ~is_in_bounds(tree[RootPath], bodies[idx])) =>
           /\ tree' = tree
           /\ heap' = heap
           /\ pc' = "insert"
      ]_vars

\* A body outside the root has been passed to insert_body after a body
\* that lies in the tree.
C28_Witness ==
    /\ pc = "insert"
    /\ tree # NoTree
    /\ \E b \in inserted : \E c \in inserted :
          /\ c < b
          /\ ~is_in_bounds(tree[RootPath], bodies[b])
          /\ Referencing(tree, c) # {}
          /\ Referencing(tree, b) = {}

\* C29: once the tree is aggregated, the center of mass of every node of
\* positive total_mass lies inside the node's region, the edges included.
C29_CenterInsideRegion ==
    (tree # NoTree /\ (Aggregated \/ pc \in AfterAggregation)) =>
        \A p \in DOMAIN tree :
            tree[p].total_mass > 0 =>
                /\ tree[p].x <= tree[p].center_x
                /\ tree[p].center_x <= tree[p].x + tree[p].width
                /\ tree[p].y <= tree[p].center_y
                /\ tree[p].center_y <= tree[p].y + tree[p].height

\* The four buttons: the column of x and their rows of y.
InButton(x, y) ==
    /\ WIDTH - 100 <= x /\ x <= WIDTH - 50
    /\ \/ 20 <= y /\ y <= 60
       \/ 80 <= y /\ y <= 120
       \/ 200 <= y /\ y <= 240
       \/ 260 <= y /\ y <= 300

\* C30: whatever was clicked, the main loop's dt and the dt handed to the
\* stepper in a frame are within [min_dt, max_dt] and positive,
\* pixels_per_AU is within [min_zoom, max_zoom], and a click outside the four
\* buttons changes neither dt nor pixels_per_AU.
C30_ControlsClamped ==
    /\ min_dt <= controls.dt /\ controls.dt <= max_dt
    /\ \A i \in DOMAIN controls.handed :
          /\ min_dt <= controls.handed[i] /\ controls.handed[i] <= max_dt
          /\ controls.handed[i] > 0
    /\ min_zoom <= controls.pixels_per_AU /\ controls.pixels_per_AU <= max_zoom
    /\ \A x \in ClickXs : \A y \in ClickYs :
          ~InButton(x, y) =>
              /\ on_click(controls, x, y).dt = controls.dt
              /\ on_click(controls, x, y).pixels_per_AU = controls.pixels_per_AU

\* A frame was stepped with the time step held at its lower limit while
\* the zoom is held at its upper limit.
C30_Witness ==
    /\ controls.handed = <<min_dt>>
    /\ controls.pixels_per_AU = max_zoom
    /\ controls.clicks > 0

====
